---- MODULE Spec2Model ----
(***************************************************************************)
(* Model of chalamet-sequence.py: a sequential batch job that walks the    *)
(* seasons newest first, serves schedules and play-by-play records from    *)
(* pickle caches or from the network, evaluates every at-bat against the   *)
(* slider -> curveball -> fastball strikeout sequence, scores the matches  *)
(* and keeps the best-scoring ones.                                        *)
(*                                                                         *)
(* A Python dict is a TLA+ record/function; a key that is absent from the  *)
(* dict is absent from the DOMAIN, and subscripting it raises KeyError.    *)
(* Release speeds are in tenths of a mph (96.5 mph is 965).                *)
(***************************************************************************)
EXTENDS Integers, Sequences, FiniteSets, TLC

VARIABLES
    clock,          \* the calendar year (datetime.now().year reads it)
    same_fs,        \* the temporary directory is on the file system of pickles/
    files,          \* the file system: path -> content
    pc,             \* position of the process, or how it ended
    current_year,   \* line 63
    quiet,          \* line 50: args.quiet
    year,           \* loop variable of line 65
    schedules,      \* line 55
    games,          \* line 66 / 70
    gi,             \* position of the game loop of line 92 in games
    play_by_play,   \* line 79
    pbp_updated,    \* line 90
    best_plays,     \* line 52
    best_score,     \* line 53
    dump,           \* the running pickle_dump call: data kind, path, caller
    net,            \* history: the network request of the last step
    fetched,        \* history: game ids fetched while processing this year
    flush,          \* history: the last flush, its path and the content before
    run,            \* history: what the run found, fetched and has reached
    observed,       \* history: the at-bats scored so far, with their scores
    play,           \* the at-bat under evaluation (loop variable of line 108)
    result          \* what the loop body did with it

vars == <<clock, same_fs, files, pc, current_year, quiet, year, schedules,
          games, gi, play_by_play, pbp_updated, best_plays, best_score, dump,
          net, fetched, flush, run, observed, play, result>>

progVars == <<clock, same_fs, files, pc, current_year, quiet, year, schedules,
              games, gi, play_by_play, pbp_updated, dump, net, fetched, flush,
              run>>

(***************************************************************************)
(* Program constants                                                       *)
(***************************************************************************)
CATCHER_LEFT == {1, 4, 7, 11, 13}

CATCHER_RIGHT == {3, 6, 9, 12, 14}

SLIDERS == {"SL", "ST"}

CURVEBALLS == {"CU", "KC"}

FASTBALLS == {"FF", "SI"}

DIRT == {13, 14}

SPEED_THRESHOLD == 965

HasKey(d, k) == k \in DOMAIN d

(***************************************************************************)
(* The body of the at-bat loop, lines 108-178                              *)
(***************************************************************************)

\* a count guard that forgets the balls
CountOk_m(p) == p.count.strikes = 3

\* line 109: the final count is 0 balls, 3 strikes
CountOk(p) == p.count.balls = 0 /\ p.count.strikes = 3

\* line 117: pitch_idxs holds 0-based indices into playEvents
Pitches(p) == [k \in 1..Len(p.pitchIndex) |-> p.playEvents[p.pitchIndex[k] + 1]]

\* an automatic-strike test that looks at the first pitch only
AnyAutomaticStrike_m(ps) == ps[1].details.code = "AC"

\* line 120: automatic strike on any of the pitches
AnyAutomaticStrike(ps) == \E k \in 1..Len(ps) : ps[k].details.code = "AC"

\* lines 125-138: "pass" when the three type checks pass, "continue" when one
\* fails or a lookup of ["details"]["type"]["code"] raises KeyError (caught).
\* The checks run in order; the first failing one decides.
TypeCheck(ps) ==
    IF ~HasKey(ps[1].details, "type") THEN "continue"
    ELSE IF ps[1].details.type.code \notin SLIDERS THEN "continue"
    ELSE IF ~HasKey(ps[2].details, "type") THEN "continue"
    ELSE IF ps[2].details.type.code \notin CURVEBALLS THEN "continue"
    ELSE IF ~HasKey(ps[3].details, "type") THEN "continue"
    ELSE IF ps[3].details.type.code \notin FASTBALLS THEN "continue"
    ELSE "pass"

\* an outside set that ignores the batter's side
Outside_m(bat_side) == CATCHER_RIGHT

\* lines 144-145
Outside(bat_side) == IF bat_side = "R" THEN CATCHER_RIGHT ELSE CATCHER_LEFT

Inside(bat_side) == IF bat_side = "R" THEN CATCHER_LEFT ELSE CATCHER_RIGHT

\* lines 148, 152, 164: pitch["pitchData"]["zone"]; no other field is probed
ZoneReadable(pitch) == HasKey(pitch.pitchData, "zone")

Zone(pitch) == pitch.pitchData.zone

B2N(b) == IF b THEN 1 ELSE 0

\* lines 140-171: get_score raises KeyError when a zone lookup fails
ScoreRaises(p, ps) ==
    ~ZoneReadable(ps[1]) \/ ~ZoneReadable(ps[2]) \/ ~ZoneReadable(ps[3])

\* a speed test that is strict
get_score_m(p, ps) ==
    LET bat_side == p.matchup.batSide.code
    IN    B2N(ps[1].pitchData.zone \in Outside(bat_side))
        + B2N(ps[2].pitchData.zone \in DIRT)
        + B2N(ps[2].details.code = "S")
        + B2N(ps[3].pitchData.startSpeed > SPEED_THRESHOLD)
        + B2N(ps[3].pitchData.zone \in Inside(bat_side))
        + B2N(ps[3].details.code = "C")

get_score(p, ps) ==
    LET bat_side == p.matchup.batSide.code
        outside == Outside(bat_side)
        inside == Inside(bat_side)
    IN    B2N(Zone(ps[1]) \in outside)
        + B2N(Zone(ps[2]) \in DIRT)
        + B2N(ps[2].details.code = "S")
        + B2N(ps[3].pitchData.startSpeed >= SPEED_THRESHOLD)
        + B2N(Zone(ps[3]) \in inside)
        + B2N(ps[3].details.code = "C")

\* lines 109-173 for one at-bat: "continue" (the at-bat is skipped), "score"
\* (get_score returned) or "KeyError" (an uncaught KeyError leaves the loop)
Evaluate(p) ==
    IF ~CountOk(p) THEN [outcome |-> "continue"]
    ELSE IF Len(p.pitchIndex) # 3 THEN [outcome |-> "continue"]
    ELSE LET ps == Pitches(p) IN
         IF AnyAutomaticStrike(ps) THEN [outcome |-> "continue"]
         ELSE IF TypeCheck(ps) = "continue"
              THEN [outcome |-> "continue"]
         ELSE IF ScoreRaises(p, ps)
              THEN [outcome |-> "KeyError"]
         ELSE [outcome |-> "score", score |-> get_score(p, ps)]

\* a best-set update that also discards on an equal score
UpdateBest_m(bp, bs, p, score) ==
    IF score >= bs
    THEN [best_plays |-> <<p>>, best_score |-> score]
    ELSE [best_plays |-> bp, best_score |-> bs]

\* lines 174-178: the best-set update, on the pair <<best_plays, best_score>>
UpdateBest(bp, bs, p, score) ==
    IF score >= bs
    THEN [best_plays |-> (IF score > bs THEN <<>> ELSE bp) \o <<p>>,
          best_score |-> score]
    ELSE [best_plays |-> bp, best_score |-> bs]

(***************************************************************************)
(* At-bats as the play-by-play service delivers them (lines 108-171 name   *)
(* the keys that are read).  "location" stands for the second place a      *)
(* record may carry its zone; the program never reads it.                  *)
(***************************************************************************)
Pitch(t, c, z, s) ==
    [details |-> [code |-> c, type |-> [code |-> t]],
     pitchData |-> [zone |-> z, startSpeed |-> s]]

\* no pitch-type classification
PitchNoType(c, z, s) ==
    [details |-> [code |-> c], pitchData |-> [zone |-> z, startSpeed |-> s]]

\* no zone anywhere
PitchNoZone(t, c, s) ==
    [details |-> [code |-> c, type |-> [code |-> t]],
     pitchData |-> [startSpeed |-> s]]

\* the zone only under the secondary field
PitchZone2(t, c, z, s) ==
    [details |-> [code |-> c, type |-> [code |-> t]],
     pitchData |-> [startSpeed |-> s],
     location |-> [zone |-> z]]

AtBat(balls, strikes, idxs, events, side, t) ==
    [count |-> [balls |-> balls, strikes |-> strikes],
     pitchIndex |-> idxs,
     playEvents |-> events,
     matchup |-> [batSide |-> [code |-> side]],
     about |-> [startTime |-> t]]

Zones == (1..9) \cup (11..14)

ZoneSample == {1, 3, 5, 13, 14}

TypeCodes == {"SL", "ST", "CU", "KC", "FF", "SI", "CH"}

BatSides == {"R", "L"}

\* a pitch of type t, call c, speed s with every way of carrying a zone
ZoneVariants(t, c, s, Zs) ==
    {Pitch(t, c, z, s) : z \in Zs} \cup {PitchZone2(t, c, z, s) : z \in Zs}
        \cup {PitchNoZone(t, c, s)}

\* a pitch with call c and zone z with every type code, or none
TypeVariants(c, z, s) ==
    {Pitch(t, c, z, s) : t \in TypeCodes} \cup {PitchNoType(c, z, s)}

GuardPitches ==
    {Pitch("SL", "C", 14, 850), Pitch("CU", "S", 13, 800),
     Pitch("FF", "C", 1, 970), PitchNoType("C", 1, 970),
     PitchNoZone("FF", "C", 970)}

PitchIndexLists == {<<>>, <<0, 1>>, <<0, 1, 2>>, <<1, 2, 3>>, <<0, 1, 2, 3>>}

(***************************************************************************)
(* The file system and pickle_dump, lines 41-45                            *)
(***************************************************************************)
YEAR_STOP == 2007

MaxYear == 2010

Years == (YEAR_STOP + 1)..MaxYear

Absent == [exists |-> FALSE]

Partial == [exists |-> TRUE, complete |-> FALSE]

Complete(d) == [exists |-> TRUE, complete |-> TRUE, data |-> d]

\* line 58 / 74: "pickles/schedules.pickle"
SchedPath == <<"pickles", "schedules", 0>>

\* line 82 / 191: f"pickles/pbp{year}.pickle"
PbpPath(y) == <<"pickles", "pbp", y>>

\* line 42: NamedTemporaryFile is given no dir: the file is created in the
\* default temporary directory, under a fresh name.  files[TempPath] is the
\* temporary file of the running pickle_dump call; a file a dead process left
\* behind (delete=False) keeps its own name, is never opened again and is not
\* tracked
TempPath == <<"tmpdir", "tmp", 0>>

Paths == {SchedPath, TempPath} \cup {PbpPath(y) : y \in Years}

CachePaths == Paths \ {TempPath}

\* a pickle_dump that writes the destination in place
DumpTarget_m(path) == path

\* line 42: the file pickle_dump opens for writing when asked to write path
DumpTarget(path) == TempPath

\* lines 57-61, 81-88: open + pickle.load; FileNotFoundError leaves the dict empty
Loaded(content) == IF content.exists THEN content.data ELSE <<>>

\* pickle.load of a truncated file raises
Loadable(content) == content.exists => content.complete

\* an assignment that forgets the other keys
Put_m(d, k, v) == (k :> v)

\* d[k] = v
Put(d, k, v) == (k :> v) @@ d

NoDump == [kind |-> "none"]

NoRequest == [kind |-> "none"]

NoFlush == [state |-> "none"]

\* the history of a run: the year it started from, the year it is processing
\* (or was, when it ended), the cache files it found and the play-by-play
\* records it has fetched, by year
NoRun ==
    [from |-> YEAR_STOP, at |-> YEAR_STOP,
     pre |-> [p \in CachePaths |-> Absent], got |-> <<>>]

RunFrom(y, fs) ==
    [from |-> y, at |-> y, pre |-> [p \in CachePaths |-> fs[p]], got |-> <<>>]

Got(r, y, game_id, game) ==
    [r EXCEPT !.got = Put(r.got, y,
                          Put(IF y \in DOMAIN r.got THEN r.got[y] ELSE <<>>,
                              game_id, game))]

(***************************************************************************)
(* The statistics service                                                  *)
(***************************************************************************)
MONTHS == 12

Gid(y, k) == (y - 2000) * 10 + k

Game(id, status, type, month) ==
    [game_id |-> id, status |-> status, game_type |-> type, game_date |-> month]

\* the games of a season as the service holds them, in no particular order;
\* game types: R regular season, S spring training, E exhibition, W World Series
WorldSchedules(y) ==
    {<<Game(Gid(y, 2), "Final", "R", 5), Game(Gid(y, 1), "Final", "R", 4)>>,
     <<Game(Gid(y, 1), "Final", "R", 4), Game(Gid(y, 1), "Final", "R", 4)>>,
     <<Game(Gid(y, 1), "Final", "S", 3), Game(Gid(y, 2), "Final", "R", 5)>>,
     <<Game(Gid(y, 1), "Scheduled", "R", 9), Game(Gid(y, 2), "Final", "W", 10)>>,
     <<Game(Gid(y, 2), "Final", "E", 3)>>}

\* lines 17-20: the games of one month, in the service's order
get_schedule(world, month) == SelectSeq(world, LAMBDA g : g.game_date = month)

RECURSIVE MonthsFrom(_, _)
MonthsFrom(world, month) ==
    IF month > MONTHS THEN <<>>
    ELSE get_schedule(world, month) \o MonthsFrom(world, month + 1)

\* lines 23-32
get_games(world) == MonthsFrom(world, 1)

\* at-bats of the play-by-play records: a right-handed batter, start time t
SixAtBat(t) ==
    AtBat(0, 3, <<0, 1, 2>>,
          <<Pitch("SL", "C", 14, 850), Pitch("CU", "S", 13, 800),
            Pitch("FF", "C", 1, 970)>>, "R", t)

FiveAtBat(t) ==
    AtBat(0, 3, <<0, 1, 2>>,
          <<Pitch("SL", "C", 14, 850), Pitch("CU", "S", 13, 800),
            Pitch("FF", "C", 1, 900)>>, "R", t)

ThreeAtBat(t) ==
    AtBat(0, 3, <<1, 2, 3>>,
          <<Pitch("FF", "B", 5, 900), Pitch("ST", "C", 5, 850),
            Pitch("KC", "C", 5, 800), Pitch("SI", "C", 1, 970)>>, "R", t)

WalkAtBat(t) ==
    AtBat(4, 1, <<0, 1, 2, 3, 4>>,
          <<Pitch("FF", "B", 11, 900), Pitch("FF", "B", 11, 900),
            Pitch("FF", "C", 5, 900), Pitch("FF", "B", 12, 900),
            Pitch("FF", "B", 12, 900)>>, "L", t)

NoZoneAtBat(t) ==
    AtBat(0, 3, <<0, 1, 2>>,
          <<Pitch("SL", "C", 14, 850), PitchZone2("CU", "S", 13, 800),
            Pitch("FF", "C", 1, 970)>>, "R", t)

\* the records the service may return for a game (line 37)
PlayByPlayResponses(game_id) ==
    IF game_id % 10 = 1
    THEN {[allPlays |-> <<ThreeAtBat(game_id * 10 + 1), FiveAtBat(game_id * 10 + 2),
                          WalkAtBat(game_id * 10 + 3)>>]}
    ELSE {[allPlays |-> <<SixAtBat(game_id * 10 + 1)>>],
          [allPlays |-> <<FiveAtBat(game_id * 10 + 1), NoZoneAtBat(game_id * 10 + 2)>>]}

(***************************************************************************)
(* The main program, lines 48-202                                          *)
(***************************************************************************)

\* a lookup that never finds the year
ScheduleCached_m(scheds, y) == FALSE

\* line 66-67: schedules.get(year, None) is not None
ScheduleCached(scheds, y) == y \in DOMAIN scheds

\* a commit test that lets the current year through
Persistable_m(y, cur) == y <= cur

\* line 72
Persistable(y, cur) == y < cur

\* a lookup that never finds the game
GameCached_m(pbp, game_id) == FALSE

\* line 101-103: play_by_play.get(game_id, None) is not None
GameCached(pbp, game_id) == game_id \in DOMAIN pbp

\* a dirty flag that is never set
MarkUpdated_off(updated, hit) == FALSE

\* a dirty flag set for every evaluated game
MarkUpdated_m(updated, hit) == TRUE

\* lines 90, 103-104: pbp_updated after a game that was (hit) or was not cached
MarkUpdated(updated, hit) == updated \/ ~hit

\* a filter that looks at the status only
Eligible_m(scheduled) == scheduled.status = "Final"

\* a progress bar that yields nothing when it is disabled
tqdm_m(iterable, disable) == IF disable THEN <<>> ELSE iterable

\* line 92: tqdm(games, disable=args.quiet) yields the items of games
tqdm(iterable, disable) == iterable

\* lines 93-97: the scheduled game is evaluated
Eligible(scheduled) ==
    scheduled.status = "Final" /\ scheduled.game_type \notin {"E", "S"}

\* lines 108-178 over the plays of one game, from play i on
RECURSIVE EvalPlays(_, _, _, _)
EvalPlays(plays, i, bp, bs) ==
    IF i > Len(plays) THEN [raised |-> FALSE, best_plays |-> bp, best_score |-> bs]
    ELSE LET r == Evaluate(plays[i]) IN
         IF r.outcome = "KeyError"
         THEN [raised |-> TRUE, best_plays |-> bp, best_score |-> bs]
         ELSE IF r.outcome = "continue" THEN EvalPlays(plays, i + 1, bp, bs)
         ELSE LET u == UpdateBest(bp, bs, plays[i], r.score)
              IN EvalPlays(plays, i + 1, u.best_plays, u.best_score)

\* a sort that leaves the list as it is
SortByStartTime_m(s) == s

\* line 180: list.sort is stable
RECURSIVE SortByStartTime(_)
SortByStartTime(s) ==
    IF Len(s) <= 1 THEN s
    ELSE LET rest == SortByStartTime(Tail(s))
             k == s[1].about.startTime
             before == SelectSeq(rest, LAMBDA q : q.about.startTime < k)
             after == SelectSeq(rest, LAMBDA q : q.about.startTime >= k)
         IN before \o <<s[1]>> \o after

Running == {"year", "load", "games", "dump_open", "dump_write", "dump_rename"}

Ended == {"stopped", "done", "killed", "KeyError", "OSError", "UnpicklingError"}

\* the files once the process is gone: its temporary file is an orphan
Orphaned(fs) == [fs EXCEPT ![TempPath] = Absent]

\* the process is gone, and its memory with it
Die(how) ==
    /\ pc' = how
    /\ current_year' = YEAR_STOP
    /\ quiet' = FALSE
    /\ year' = YEAR_STOP
    /\ schedules' = <<>>
    /\ games' = <<>>
    /\ gi' = 1
    /\ play_by_play' = <<>>
    /\ pbp_updated' = FALSE
    /\ best_plays' = <<>>
    /\ best_score' = 0
    /\ dump' = NoDump
    /\ fetched' = {}

Init ==
    /\ clock \in Years
    /\ same_fs \in BOOLEAN
    /\ files = [p \in Paths |-> Absent]
    /\ pc = "stopped"
    /\ current_year = YEAR_STOP
    /\ quiet = FALSE
    /\ year = YEAR_STOP
    /\ schedules = <<>>
    /\ games = <<>>
    /\ gi = 1
    /\ play_by_play = <<>>
    /\ pbp_updated = FALSE
    /\ best_plays = <<>>
    /\ best_score = 0
    /\ dump = NoDump
    /\ net = NoRequest
    /\ fetched = {}
    /\ flush = NoFlush
    /\ run = NoRun
    /\ observed = <<>>
    /\ play = WalkAtBat(1)
    /\ result = [outcome |-> "pending"]

\* the calendar moves on
Tick ==
    /\ clock < MaxYear
    /\ clock' = clock + 1
    /\ net' = IF net.kind = "failed" THEN net ELSE NoRequest
    /\ UNCHANGED <<same_fs, files, pc, current_year, quiet, year, schedules, games, gi,
                   play_by_play, pbp_updated, best_plays, best_score, dump,
                   fetched, flush, run, observed, play, result>>

\* lines 48-65: a new process loads the schedule cache and enters the year loop
StartRun ==
    /\ pc \in Ended
    /\ net' = NoRequest
    /\ flush' = NoFlush
    /\ IF Loadable(files[SchedPath])
       THEN /\ pc' = "year"
            /\ best_plays' = <<>>
            /\ best_score' = 0
            /\ schedules' = Loaded(files[SchedPath])
            /\ current_year' = clock
            /\ quiet' \in BOOLEAN
            /\ year' = clock
            /\ games' = <<>>
            /\ gi' = 1
            /\ play_by_play' = <<>>
            /\ pbp_updated' = FALSE
            /\ dump' = NoDump
            /\ fetched' = {}
            /\ run' = RunFrom(clock, files)
       ELSE /\ Die("UnpicklingError")
            /\ run' = RunFrom(YEAR_STOP, files)
    /\ UNCHANGED <<clock, same_fs, files, observed, play, result>>

\* lines 66-77, up to the call of pickle_dump
GetSchedule ==
    /\ pc = "year"
    /\ year > YEAR_STOP
    /\ IF ScheduleCached(schedules, year)
       THEN /\ games' = schedules[year]
            /\ net' = NoRequest
            /\ pc' = "load"
            /\ UNCHANGED <<schedules, dump>>
       ELSE \E world \in WorldSchedules(year) :
            /\ games' = get_games(world)
            /\ net' = [kind |-> "schedule", year |-> year]
            /\ IF Persistable(year, current_year)
               THEN /\ schedules' = Put(schedules, year, games')
                    /\ dump' = [kind |-> "schedules", path |-> SchedPath,
                                ret |-> "load"]
                    /\ pc' = "dump_open"
               ELSE /\ pc' = "load"
                    /\ UNCHANGED <<schedules, dump>>
    /\ UNCHANGED <<clock, same_fs, files, current_year, quiet, year, gi, play_by_play,
                   pbp_updated, best_plays, best_score, fetched, flush, run,
                   observed, play, result>>

\* the data of the running pickle_dump call
DumpData == IF dump.kind = "schedules" THEN schedules ELSE play_by_play

\* line 42: the file is created, nothing is written yet
DumpOpen ==
    /\ pc = "dump_open"
    /\ files' = [files EXCEPT ![DumpTarget(dump.path)] = Partial]
    /\ flush' = [state |-> "writing", path |-> dump.path, old |-> files[dump.path]]
    /\ pc' = "dump_write"
    /\ net' = NoRequest
    /\ UNCHANGED <<clock, same_fs, current_year, quiet, year, schedules, games, gi,
                   play_by_play, pbp_updated, best_plays, best_score, dump,
                   fetched, run, observed, play, result>>

\* lines 43-44: the pickle is written and the file closed
DumpWrite ==
    /\ pc = "dump_write"
    /\ files' = [files EXCEPT ![DumpTarget(dump.path)] = Complete(DumpData)]
    /\ pc' = "dump_rename"
    /\ net' = NoRequest
    /\ UNCHANGED <<clock, same_fs, current_year, quiet, year, schedules, games, gi,
                   play_by_play, pbp_updated, best_plays, best_score, dump,
                   fetched, flush, run, observed, play, result>>

\* line 45: rename; it raises OSError across file systems.  Then the caller
\* goes on: line 79 after the schedule, the next year after the play-by-play
DumpRename ==
    /\ pc = "dump_rename"
    /\ net' = NoRequest
    /\ IF same_fs \/ DumpTarget(dump.path) = dump.path
       THEN /\ files' = [p \in Paths |->
                           IF p = dump.path THEN files[DumpTarget(dump.path)]
                           ELSE IF p = DumpTarget(dump.path) THEN Absent
                           ELSE files[p]]
            /\ flush' = [flush EXCEPT !.state = "renamed"]
            /\ dump' = NoDump
            /\ IF dump.ret = "load"
               THEN pc' = "load" /\ year' = year /\ run' = run
               ELSE /\ pc' = "year"
                    /\ year' = year - 1
                    /\ run' = [run EXCEPT !.at = year - 1]
            /\ UNCHANGED <<current_year, quiet, schedules, games, gi, play_by_play,
                           pbp_updated, best_plays, best_score, fetched>>
       ELSE /\ Die("OSError")
            /\ files' = Orphaned(files)
            /\ UNCHANGED <<flush, run>>
    /\ UNCHANGED <<clock, same_fs, observed, play, result>>

\* lines 79-90
LoadPlayByPlay ==
    /\ pc = "load"
    /\ net' = NoRequest
    /\ IF Loadable(files[PbpPath(year)])
       THEN /\ play_by_play' = Loaded(files[PbpPath(year)])
            /\ pbp_updated' = FALSE
            /\ gi' = 1
            /\ fetched' = {}
            /\ pc' = "games"
            /\ UNCHANGED <<current_year, quiet, year, schedules, games, best_plays,
                           best_score, dump>>
       ELSE Die("UnpicklingError")
    /\ UNCHANGED <<clock, same_fs, files, flush, run, observed, play, result>>

\* lines 92-178: one scheduled game, with the progress bar disabled or not
ProcessGameWith(disable) ==
    /\ pc = "games"
    /\ gi <= Len(tqdm(games, disable))
    /\ LET scheduled == tqdm(games, disable)[gi]
           game_id == scheduled.game_id
       IN IF ~Eligible(scheduled)
          THEN /\ gi' = gi + 1
               /\ net' = NoRequest
               /\ UNCHANGED <<pc, current_year, quiet, year, schedules, games,
                              play_by_play, pbp_updated, best_plays, best_score,
                              dump, fetched, run>>
          ELSE \E game \in IF GameCached(play_by_play, game_id)
                           THEN {play_by_play[game_id]}
                           ELSE PlayByPlayResponses(game_id) :
               LET hit == GameCached(play_by_play, game_id)
                   r == EvalPlays(game.allPlays, 1, best_plays, best_score)
               IN /\ net' = IF hit THEN NoRequest
                            ELSE [kind |-> "play_by_play", game_id |-> game_id]
                  /\ IF r.raised
                     THEN Die("KeyError") /\ run' = run
                     ELSE /\ run' = IF hit THEN run
                                      ELSE Got(run, year, game_id, game)
                          /\ play_by_play' = IF hit THEN play_by_play
                                             ELSE Put(play_by_play, game_id, game)
                          /\ pbp_updated' = MarkUpdated(pbp_updated, hit)
                          /\ fetched' = IF hit THEN fetched
                                        ELSE fetched \cup {game_id}
                          /\ best_plays' = r.best_plays
                          /\ best_score' = r.best_score
                          /\ gi' = gi + 1
                          /\ UNCHANGED <<pc, current_year, quiet, year, schedules,
                                         games, dump>>
    /\ UNCHANGED <<clock, same_fs, files, flush, observed, play, result>>

ProcessGame == ProcessGameWith(quiet)

\* lines 180-194, up to the call of pickle_dump
EndYearWith(disable) ==
    /\ pc = "games"
    /\ gi > Len(tqdm(games, disable))
    /\ best_plays' = SortByStartTime(best_plays)
    /\ net' = NoRequest
    /\ IF pbp_updated
       THEN /\ dump' = [kind |-> "pbp", path |-> PbpPath(year), ret |-> "next"]
            /\ pc' = "dump_open"
            /\ year' = year
            /\ run' = run
       ELSE /\ pc' = "year"
            /\ year' = year - 1
            /\ dump' = dump
            /\ run' = [run EXCEPT !.at = year - 1]
    /\ UNCHANGED <<clock, same_fs, files, current_year, quiet, schedules, games, gi,
                   play_by_play, pbp_updated, best_score, fetched, flush,
                   observed, play, result>>

EndYear == EndYearWith(quiet)

\* lines 196-202: the loop is exhausted, the summary is printed
Finish ==
    /\ pc = "year"
    /\ year <= YEAR_STOP
    /\ pc' = "done"
    /\ net' = NoRequest
    /\ UNCHANGED <<clock, same_fs, files, current_year, quiet, year, schedules, games,
                   gi, play_by_play, pbp_updated, best_plays, best_score, dump,
                   fetched, flush, run, observed, play, result>>

\* the process is terminated from outside, at any point
Kill ==
    /\ pc \in Running
    /\ Die("killed")
    /\ net' = NoRequest
    /\ flush' = IF flush.state = "writing" THEN [flush EXCEPT !.state = "killed"]
                ELSE flush
    /\ files' = Orphaned(files)
    /\ UNCHANGED <<clock, same_fs, run, observed, play, result>>

Next ==
    \/ Tick
    \/ StartRun
    \/ GetSchedule
    \/ DumpOpen
    \/ DumpWrite
    \/ DumpRename
    \/ LoadPlayByPlay
    \/ ProcessGame
    \/ EndYear
    \/ Finish
    \/ Kill

Spec == Init /\ [][Next]_vars

(***************************************************************************)
(* The run with its network retries, left alone and served well-formed     *)
(* records                                                                 *)
(***************************************************************************)
\* line 17 / 35: wait_exponential(multiplier=1, min=1, max=10)
WAIT_MULTIPLIER == 1

WAIT_MIN == 1

WAIT_MAX == 10

\* tenacity's default exp_base
EXP_BASE == 2

MaxRetries == 2

Min(a, b) == IF a < b THEN a ELSE b

Max(a, b) == IF a > b THEN a ELSE b

\* the wait before the retry that follows the attempt-th failed attempt
Wait(attempt) ==
    Max(WAIT_MIN, Min(WAIT_MULTIPLIER * EXP_BASE ^ (attempt - 1), WAIT_MAX))

\* the failed attempts of the request the process is making
Attempts == IF net.kind = "failed" THEN net.attempt ELSE 0

\* the next step of the process is a network request: lines 69-70, 103-104
RequestDue ==
    \/ pc = "year" /\ year > YEAR_STOP /\ ~ScheduleCached(schedules, year)
    \/ /\ pc = "games"
       /\ gi <= Len(games)
       /\ Eligible(games[gi])
       /\ ~GameCached(play_by_play, games[gi].game_id)

\* lines 17, 35: the request raises, @retry catches the exception and waits;
\* the caller sees nothing.  The requests fail MaxRetries times at most
FailedAttempt ==
    /\ RequestDue
    /\ Attempts < MaxRetries
    /\ net' = [kind |-> "failed", attempt |-> Attempts + 1,
               wait |-> Wait(Attempts + 1)]
    /\ UNCHANGED <<clock, same_fs, files, pc, current_year, quiet, year,
                   schedules, games, gi, play_by_play, pbp_updated, best_plays,
                   best_score, dump, fetched, flush, run, observed, play,
                   result>>

\* a game whose record has every field the loop body reads
WellFormedGame == ProcessGame /\ pc' # "KeyError"

LiveNext ==
    \/ Tick
    \/ StartRun
    \/ GetSchedule
    \/ FailedAttempt
    \/ DumpOpen
    \/ DumpWrite
    \/ DumpRename
    \/ LoadPlayByPlay
    \/ WellFormedGame
    \/ EndYear
    \/ Finish

\* a step of the running process other than a failed attempt
Progress ==
    \/ GetSchedule
    \/ DumpOpen
    \/ DumpWrite
    \/ DumpRename
    \/ LoadPlayByPlay
    \/ WellFormedGame
    \/ EndYear
    \/ Finish

\* the process is scheduled: it is never stopped for good while it can step
SpecLive == Init /\ [][LiveNext]_vars /\ WF_vars(Progress)

\* the program at rest, for the specifications of its pure parts
ProgIdle ==
    /\ clock = YEAR_STOP + 1
    /\ same_fs = TRUE
    /\ files = [p \in Paths |-> Absent]
    /\ pc = "stopped"
    /\ current_year = YEAR_STOP
    /\ quiet = FALSE
    /\ year = YEAR_STOP
    /\ schedules = <<>>
    /\ games = <<>>
    /\ gi = 1
    /\ play_by_play = <<>>
    /\ pbp_updated = FALSE
    /\ dump = NoDump
    /\ net = NoRequest
    /\ fetched = {}
    /\ flush = NoFlush
    /\ run = NoRun

(***************************************************************************)
(* The matcher on one at-bat                                               *)
(***************************************************************************)

\* three-pitch strikeouts of the right pitch types: zones, calls, speed, side
ScoringAtBat(p) ==
    \E p1 \in ZoneVariants("SL", "C", 850, ZoneSample),
       c2 \in {"S", "C"}, c3 \in {"S", "C", "T"}, s3 \in {900, 964, 965, 970},
       side \in BatSides :
       \E p2 \in ZoneVariants("CU", c2, 800, ZoneSample),
          p3 \in ZoneVariants("FF", c3, s3, ZoneSample) :
          p = AtBat(0, 3, <<0, 1, 2>>, <<p1, p2, p3>>, side, 1)

\* every zone of the plate grid on the first and the third pitch
GridAtBat(p) ==
    \E z1 \in Zones, z3 \in Zones, side \in BatSides :
       p = AtBat(0, 3, <<0, 1, 2>>,
                 <<Pitch("ST", "C", z1, 850), Pitch("KC", "S", 5, 800),
                   Pitch("SI", "C", z3, 900)>>, side, 1)

\* three-pitch strikeouts of every type and call combination
TypedAtBat(p) ==
    \E c1 \in {"AC", "S", "C"}, c2 \in {"AC", "S", "C"}, c3 \in {"AC", "S", "C"} :
       \E p1 \in TypeVariants(c1, 14, 850)
                    \cup {PitchNoZone("SL", c1, 850), PitchNoZone("FF", c1, 850)},
          p2 \in TypeVariants(c2, 13, 800),
          p3 \in TypeVariants(c3, 1, 970) :
          p = AtBat(0, 3, <<0, 1, 2>>, <<p1, p2, p3>>, "R", 1)

\* every final count and pitch-index list, over complete and incomplete pitches
GuardAtBat(p) ==
    \E b \in 0..1, s \in 2..3, idxs \in PitchIndexLists,
       e1 \in GuardPitches, e2 \in GuardPitches, e3 \in GuardPitches :
       p = AtBat(b, s, idxs, <<e1, e2, e3, Pitch("FF", "C", 1, 970)>>, "R", 1)

MatchInit ==
    /\ ProgIdle
    /\ best_plays = <<>>
    /\ best_score = 0
    /\ observed = <<>>
    /\ \/ ScoringAtBat(play)
       \/ GridAtBat(play)
       \/ TypedAtBat(play)
       \/ GuardAtBat(play)
    /\ result = [outcome |-> "pending"]

\* one pass through the loop body of line 108, lines 109-178
EvaluatePlay ==
    /\ result.outcome = "pending"
    /\ result' = Evaluate(play)
    /\ IF result'.outcome = "score"
       THEN LET u == UpdateBest(best_plays, best_score, play, result'.score)
            IN best_plays' = u.best_plays /\ best_score' = u.best_score
       ELSE UNCHANGED <<best_plays, best_score>>
    /\ UNCHANGED <<play, progVars, observed>>

MatchNext == EvaluatePlay

SpecMatch == MatchInit /\ [][MatchNext]_vars

(***************************************************************************)
(* The best set over a stream of scored at-bats                            *)
(***************************************************************************)
MaxObserved == 5

FiveOutsideMissed(t) ==
    AtBat(0, 3, <<0, 1, 2>>,
          <<Pitch("SL", "C", 5, 850), Pitch("CU", "S", 13, 800),
            Pitch("FF", "C", 1, 970)>>, "R", t)

FiveNoChase(t) ==
    AtBat(0, 3, <<0, 1, 2>>,
          <<Pitch("ST", "C", 11, 850), Pitch("KC", "C", 14, 800),
            Pitch("SI", "C", 12, 970)>>, "L", t)

TwoAtBat(t) ==
    AtBat(0, 3, <<0, 1, 2>>,
          <<Pitch("SL", "C", 5, 850), Pitch("CU", "C", 5, 800),
            Pitch("FF", "C", 1, 900)>>, "R", t)

ZeroAtBat(t) ==
    AtBat(0, 3, <<0, 1, 2>>,
          <<Pitch("SL", "C", 5, 850), Pitch("CU", "C", 5, 800),
            Pitch("FF", "S", 5, 900)>>, "R", t)

\* at-bats that pass the matching predicate, with their start times
BestSample ==
    {SixAtBat(7), FiveAtBat(2), FiveOutsideMissed(5), FiveNoChase(3),
     ThreeAtBat(6), TwoAtBat(1), ZeroAtBat(4)}

ObservedPlays == {observed[i].play : i \in 1..Len(observed)}

BestInit ==
    /\ ProgIdle
    /\ best_plays = <<>>
    /\ best_score = 0
    /\ observed = <<>>
    /\ play = WalkAtBat(1)
    /\ result = [outcome |-> "pending"]

\* lines 108-178 for the next at-bat of the stream, one that is scored
ObserveAtBat ==
    /\ Len(observed) < MaxObserved
    /\ \E p \in BestSample \ ObservedPlays :
          LET r == Evaluate(p) IN
          /\ r.outcome = "score"
          /\ play' = p
          /\ result' = r
          /\ LET u == UpdateBest(best_plays, best_score, p, r.score)
             IN best_plays' = u.best_plays /\ best_score' = u.best_score
          /\ observed' = Append(observed, [play |-> p, score |-> r.score])
    /\ UNCHANGED progVars

\* line 180: a year ends between two at-bats of the stream
SortBest ==
    /\ best_plays' = SortByStartTime(best_plays)
    /\ UNCHANGED <<progVars, observed, play, result, best_score>>

BestNext == ObserveAtBat \/ SortBest

SpecBest == BestInit /\ [][BestNext]_vars

(***************************************************************************)
(* Properties                                                              *)
(***************************************************************************)
SetOf(seq) == {seq[i] : i \in 1..Len(seq)}

ObservedScores == [i \in 1..Len(observed) |-> observed[i].score]

MaxOf(S) == CHOOSE m \in S : \A n \in S : n <= m

\* C1: after any sequence of scored at-bats, starting from best_score = 0 and
\* an empty best set, best_score is the maximum of the observed scores and the
\* best set holds exactly the at-bats whose score is that maximum, each once;
\* scores observed in the order 2, 5, 5, 3, 5 leave three at-bats scoring 5.
C1_BestSetLaw ==
    LET top == MaxOf(SetOf(ObservedScores) \cup {0})
        tops == {observed[i].play : i \in {j \in 1..Len(observed) :
                                              observed[j].score = top}}
    IN /\ best_score = top
       /\ SetOf(best_plays) = tops
       /\ Len(best_plays) = Cardinality(tops)
       /\ ObservedScores = <<2, 5, 5, 3, 5>> =>
             /\ Len(best_plays) = 3
             /\ \A i \in 1..3 : Evaluate(best_plays[i]).score = 5

C1_Witness ==
    /\ ObservedScores = <<2, 5, 5, 3, 5>>
    /\ Len(best_plays) = 3
    /\ best_score = 5

FilesComplete == \A p \in CachePaths : files[p].exists => files[p].complete

\* C2: a cache file is never partially written: it is absent or complete at
\* every state, and from the moment a flush starts until its rename, also when
\* the process is killed in between, the destination holds what it held before.
C2_AtomicPersistence ==
    /\ FilesComplete
    /\ flush.state \in {"writing", "killed"} => files[flush.path] = flush.old
    /\ flush.state = "renamed" =>
          files[flush.path].exists /\ files[flush.path].complete

C2_Witness ==
    /\ pc = "killed"
    /\ flush.state = "killed"
    /\ flush.old.exists
    /\ files[flush.path] = flush.old

SchedKeys(content) ==
    IF content.exists /\ content.complete THEN DOMAIN content.data ELSE {}

\* C3: once a year's schedule is in the schedule cache file, no step fetches
\* that year's schedule from the network, a request for it is answered with the
\* cached schedule, and the file keeps the year with the same schedule.
C3_ScheduleIdempotence ==
    [][\A y \in SchedKeys(files[SchedPath]) :
          /\ ~(net'.kind = "schedule" /\ net'.year = y)
          /\ (pc = "year" /\ year = y /\ pc' \in Running \ {"year"}) =>
                (pc' = "load" /\ games' = files[SchedPath].data[y])
          /\ y \in SchedKeys(files'[SchedPath])
          /\ files'[SchedPath].data[y] = files[SchedPath].data[y]]_vars

C3_Witness ==
    /\ pc = "load"
    /\ year < current_year
    /\ year \in SchedKeys(files[SchedPath])
    /\ games = files[SchedPath].data[year]
    /\ flush.state = "none"
    /\ net.kind = "none"

\* C4: the score of a scored at-bat is the number, between 0 and 6, of the six
\* conditions that hold; for a right-handed batter an outside slider, a
\* swinging curveball in the dirt and an inside called fastball score 6 at
\* 97 mph and 5 at 90 mph.
C4_Scoring ==
    result.outcome = "score" =>
        LET ps == Pitches(play)
            side == play.matchup.batSide.code
            conds == <<ps[1].pitchData.zone \in Outside(side),
                       ps[2].pitchData.zone \in {13, 14},
                       ps[2].details.code = "S",
                       ps[3].pitchData.startSpeed >= 965,
                       ps[3].pitchData.zone \in Inside(side),
                       ps[3].details.code = "C">>
            sequence == /\ side = "R"
                        /\ ps[1].pitchData.zone \in CATCHER_RIGHT
                        /\ ps[2].pitchData.zone \in {13, 14}
                        /\ ps[2].details.code = "S"
                        /\ ps[3].pitchData.zone \in CATCHER_LEFT
                        /\ ps[3].details.code = "C"
        IN /\ result.score \in 0..6
           /\ result.score = Cardinality({i \in 1..6 : conds[i]})
           /\ (sequence /\ ps[3].pitchData.startSpeed = 970) => result.score = 6
           /\ (sequence /\ ps[3].pitchData.startSpeed = 900) => result.score = 5

C4_Witness ==
    /\ result.outcome = "score"
    /\ result.score = 6
    /\ play.matchup.batSide.code = "R"
    /\ play.playEvents[3].pitchData.startSpeed = 970

ThreePitchStrikeout(p) ==
    p.count.balls = 0 /\ p.count.strikes = 3 /\ Len(p.pitchIndex) = 3

NoZoneAnywhere(e) ==
    ~HasKey(e.pitchData, "zone") /\ ~HasKey(e, "location")

\* C5: an at-bat with a 0-3 count and three pitches, one of which lacks its
\* pitch-type classification or its zone, is skipped as a non-match; the
\* missing field never raises out of the loop.
C5_LookupFailureSkips ==
    (/\ result.outcome # "pending"
     /\ ThreePitchStrikeout(play)
     /\ \E k \in 1..3 :
           LET e == play.playEvents[play.pitchIndex[k] + 1]
           IN ~HasKey(e.details, "type") \/ NoZoneAnywhere(e))
        => result.outcome = "continue"

\* the pitch with its zone moved from the secondary to the primary field
Primary(e) ==
    IF ~HasKey(e.pitchData, "zone") /\ HasKey(e, "location")
    THEN [details |-> e.details,
          pitchData |-> [zone |-> e.location.zone,
                         startSpeed |-> e.pitchData.startSpeed]]
    ELSE e

PrimaryAtBat(p) ==
    [p EXCEPT !.playEvents = [k \in 1..Len(p.playEvents) |-> Primary(p.playEvents[k])]]

\* C6: an at-bat whose pitches carry their zone under the secondary field is
\* evaluated as the at-bat carrying the same zones under the primary field:
\* same outcome, same score.
C6_LocationFallback ==
    result.outcome # "pending" => result = Evaluate(PrimaryAtBat(play))

\* C7: an at-bat whose count is not 0 balls and 3 strikes, or whose pitch-index
\* list does not have three entries, is skipped: not scored, not added to the
\* best set, and no error is raised, whatever its pitch events hold.
C7_Preconditions ==
    (/\ result.outcome # "pending"
     /\ \/ play.count.balls # 0
        \/ play.count.strikes # 3
        \/ Len(play.pitchIndex) # 3)
        => (result.outcome = "continue" /\ best_plays = <<>>)

C7_Witness ==
    /\ result.outcome = "continue"
    /\ play.count.balls = 1
    /\ play.count.strikes = 3
    /\ Len(play.pitchIndex) = 3
    /\ TypeCheck(Pitches(play)) = "pass"
    /\ ~HasKey(play.playEvents[3].pitchData, "zone")

\* C8: over the zones 1..14, outside for a right-handed batter is inside for a
\* left-handed one and the reverse, no zone is inside and outside for the same
\* batter, and zone 1 is outside for exactly one of the two sides.
C8_HandednessMirroring ==
    result.outcome # "pending" =>
        /\ \A z \in 1..14 :
              /\ (z \in Outside("R")) <=> (z \in Inside("L"))
              /\ (z \in Inside("R")) <=> (z \in Outside("L"))
              /\ \A side \in BatSides :
                    ~(z \in Inside(side) /\ z \in Outside(side))
        /\ (1 \in Outside("R")) # (1 \in Outside("L"))

C8_Witness ==
    /\ result.outcome = "score"
    /\ play.matchup.batSide.code = "L"
    /\ play.playEvents[1].pitchData.zone = 1
    /\ play.playEvents[3].pitchData.zone = 14
    /\ result.score = 4

C10_CurrentYearNeverPersisted ==
    /\ \A y \in SchedKeys(files[SchedPath]) : y < clock
    /\ pc \in Running =>
          /\ \A y \in DOMAIN schedules : y < current_year
          /\ \A y \in SchedKeys(files[SchedPath]) : y < current_year
          /\ dump.kind = "schedules" =>
                \A y \in SchedKeys(files[TempPath]) : y < current_year

C10_Witness ==
    /\ pc = "load"
    /\ year = current_year
    /\ net.kind = "schedule"
    /\ Len(games) > 0
    /\ schedules = <<>>
    /\ ~files[SchedPath].exists

\* C11: a play-by-play request is made only for the game of the loop whose
\* id is not in the year's map and was not fetched before in this year; the
\* fetched record is stored under that id and the map is marked dirty; a game
\* whose id is in the map causes no request; no step of the game loop drops
\* or replaces a record of the map.
C11_PlayByPlayGetOrFetch ==
    [][/\ net'.kind = "play_by_play" =>
             /\ pc = "games" /\ gi <= Len(games)
             /\ net'.game_id = games[gi].game_id
             /\ net'.game_id \notin DOMAIN play_by_play
             /\ net'.game_id \notin fetched
             /\ pc' = "games" =>
                   /\ net'.game_id \in DOMAIN play_by_play'
                   /\ play_by_play'[net'.game_id] \in
                         PlayByPlayResponses(net'.game_id)
                   /\ pbp_updated'
       /\ (pc = "games" /\ gi <= Len(games) /\ pc' = "games" /\ gi' = gi + 1
              /\ games[gi].game_id \in DOMAIN play_by_play) =>
             net'.kind = "none"
       /\ (pc = "games" /\ pc' \in {"games", "dump_open", "year"}) =>
             \A g \in DOMAIN play_by_play :
                g \in DOMAIN play_by_play' /\ play_by_play'[g] = play_by_play[g]]_vars

C11_Witness ==
    /\ pc = "games"
    /\ gi = 3
    /\ games[1].game_id = games[2].game_id
    /\ Eligible(games[2])
    /\ fetched = {games[1].game_id}
    /\ net.kind = "none"
    /\ pbp_updated

\* the run ended before its loop was exhausted: killed, or aborted by an
\* exception
Aborted == pc \in Ended \ {"stopped", "done"}

\* the years whose processing the run had completed when it ended
CompletedYears == {y \in Years : run.at < y /\ y <= run.from}

\* C12: when a run is interrupted or aborted, the play-by-play file of every
\* year the run had completed is whole and holds every record the run
\* fetched for that year, and the file of the year in progress is as the run
\* found it.
C12_PerYearCrashSafety ==
    Aborted =>
       /\ \A y \in CompletedYears :
             /\ Loadable(files[PbpPath(y)])
             /\ y \in DOMAIN run.got =>
                   /\ files[PbpPath(y)].exists
                   /\ \A g \in DOMAIN run.got[y] :
                         /\ g \in DOMAIN files[PbpPath(y)].data
                         /\ files[PbpPath(y)].data[g] = run.got[y][g]
       /\ run.at \in Years =>
             files[PbpPath(run.at)] = run.pre[PbpPath(run.at)]

\* killed in the second year with a record fetched and not yet flushed, the
\* first year's fetched record in its file
C12_Witness ==
    /\ pc = "killed"
    /\ run.at < run.from
    /\ run.from \in DOMAIN run.got
    /\ run.at \in DOMAIN run.got
    /\ files[PbpPath(run.from)].exists
    /\ ~files[PbpPath(run.at)].exists

\* C13: when the run has ended normally, the best set it reports is in
\* ascending order of the at-bats' start times.
C13_OutputOrdering ==
    pc = "done" =>
       \A i \in 1..Len(best_plays) : \A j \in i..Len(best_plays) :
          best_plays[i].about.startTime <= best_plays[j].about.startTime

\* the best set holds at-bats of two years, the older year's first although
\* the newer year was processed first
C13_Witness ==
    /\ pc = "done"
    /\ Len(best_plays) >= 2
    /\ best_plays[1].about.startTime < best_plays[Len(best_plays)].about.startTime
    /\ best_plays[1].about.startTime < Gid(YEAR_STOP + 2, 0) * 10
    /\ best_plays[Len(best_plays)].about.startTime > Gid(YEAR_STOP + 2, 0) * 10

\* a step of the program as it would be with the quiet flag the other way
\* round: the same memory, files and responses, the flag read as its opposite
StepWithFlagFlipped ==
    \/ Tick
    \/ StartRun
    \/ GetSchedule
    \/ DumpOpen
    \/ DumpWrite
    \/ DumpRename
    \/ LoadPlayByPlay
    \/ ProcessGameWith(~quiet)
    \/ EndYearWith(~quiet)
    \/ Finish
    \/ Kill

TypeIn(p, k, types) ==
    LET e == p.playEvents[p.pitchIndex[k] + 1]
    IN HasKey(e.details, "type") /\ e.details.type.code \in types

\* slider or sweeper, then curveball or knuckle-curve, then four-seam fastball
\* or sinker, none of the three an automatic strike
SequenceRule(p) ==
    /\ TypeIn(p, 1, SLIDERS)
    /\ TypeIn(p, 2, CURVEBALLS)
    /\ TypeIn(p, 3, FASTBALLS)
    /\ \A k \in 1..3 : p.playEvents[p.pitchIndex[k] + 1].details.code # "AC"

\* C15: an at-bat that is scored or added to the best set is a three-pitch
\* strikeout whose pitches follow the sequence rule; a three-pitch strikeout
\* that breaks the rule is rejected without a score and without being added.
C15_SequenceMatching ==
    result.outcome # "pending" =>
       /\ (result.outcome = "score" \/ best_plays # <<>>) =>
             (ThreePitchStrikeout(play) /\ SequenceRule(play))
       /\ (ThreePitchStrikeout(play) /\ ~SequenceRule(play)) =>
             (result.outcome = "continue" /\ best_plays = <<>>)

\* the right types in the right order, rejected for an automatic strike on
\* the last pitch alone
C15_Witness ==
    /\ result.outcome = "continue"
    /\ ThreePitchStrikeout(play)
    /\ TypeIn(play, 1, SLIDERS)
    /\ TypeIn(play, 2, CURVEBALLS)
    /\ TypeIn(play, 3, FASTBALLS)
    /\ play.playEvents[1].details.code # "AC"
    /\ play.playEvents[2].details.code # "AC"
    /\ play.playEvents[3].details.code = "AC"

\* the loop step over a scheduled game issues no request and leaves the
\* year's map and the best set as they were
Untouched ==
    /\ net'.kind # "play_by_play"
    /\ pc' = "games" =>
          (play_by_play' = play_by_play /\ best_plays' = best_plays
              /\ best_score' = best_score)

\* C16 as stated: a scheduled game that is not finished or is not a
\* regular-season game (type other than R) is neither fetched nor stored nor
\* evaluated.
C16_OnlyRegularSeason ==
    [][(/\ pc = "games"
        /\ gi <= Len(games)
        /\ games[gi].status # "Final" \/ games[gi].game_type # "R")
          => Untouched]_vars

\* C16, amended: a scheduled game that is not finished or is an exhibition
\* or spring-training game (type E or S) is neither fetched nor stored nor
\* evaluated.
C16_GameFilter ==
    [][(/\ pc = "games"
        /\ gi <= Len(games)
        /\ games[gi].status # "Final" \/ games[gi].game_type \in {"E", "S"})
          => Untouched]_vars

\* a finished spring-training game has been passed over
C16_Witness ==
    /\ pc = "games"
    /\ gi = 2
    /\ games[1].status = "Final"
    /\ games[1].game_type = "S"
    /\ games[1].game_id \notin DOMAIN play_by_play
    /\ fetched = {}
    /\ best_plays = <<>>

\* the directory of a path
Directory(path) == path[1]

\* C17: every flush opens its temporary file in the directory of the
\* destination, and a flush that has finished writing replaces the
\* destination with what it wrote when it goes on to the rename.
C17_SameDirectoryFlush ==
    [][/\ (pc = "dump_open" /\ pc' = "dump_write") =>
             \A p \in Paths :
                files'[p] # files[p] => Directory(p) = Directory(dump.path)
       /\ (pc = "dump_rename" /\ pc' \notin {"dump_rename", "killed"}) =>
             /\ pc' # "OSError"
             /\ files'[dump.path] = Complete(DumpData)]_vars

\* C18: with requests that succeed after finitely many retries and records
\* that are well formed, a run never ends in an error, and when it has ended
\* it has been through every year down to 2008; until then it goes from one
\* year to the next lower one only.
C18_TerminationAndOrder ==
    /\ pc \in Ended => pc \in {"stopped", "done"}
    /\ pc = "done" => (run.at = YEAR_STOP /\ year = YEAR_STOP)
    /\ pc \in Running => (run.at = year /\ year <= run.from)

\* every year of the old content is in the new content with the same schedule
KeepsYears(old, new) ==
    \A y \in SchedKeys(old) : y \in SchedKeys(new) /\ new.data[y] = old.data[y]

\* C19: a step that changes the schedule cache file leaves it whole, keeps
\* every year of the file the run loaded at its start and every year of the
\* file as it was before the step, each with its schedule, and adds exactly
\* one year that was not in the file.
C19_ScheduleCacheGrows ==
    [][files'[SchedPath] # files[SchedPath] =>
          /\ files'[SchedPath].exists
          /\ files'[SchedPath].complete
          /\ KeepsYears(run.pre[SchedPath], files'[SchedPath])
          /\ KeepsYears(files[SchedPath], files'[SchedPath])
          /\ \E y \in Years :
                /\ y \notin SchedKeys(files[SchedPath])
                /\ SchedKeys(files'[SchedPath]) =
                      SchedKeys(files[SchedPath]) \cup {y}]_vars

\* the file holds a year the run found in it, a year the run committed
\* earlier and the year of the last flush
C19_Witness ==
    /\ pc \in Running
    /\ flush.state = "renamed"
    /\ flush.path = SchedPath
    /\ flush.old.exists
    /\ SchedKeys(files[SchedPath]) = SchedKeys(flush.old) \cup {year}
    /\ year \notin SchedKeys(flush.old)
    /\ SchedKeys(flush.old) # {}

\* C20: no at-bat is in the best set more than once, whatever the schedule
\* lists (the at-bats of the service differ in their start times).
C20_NoAtBatTwice ==
    \A i \in 1..Len(best_plays) : \A j \in 1..Len(best_plays) :
       best_plays[i] = best_plays[j] => i = j

====
